---------------------------- MODULE Spec2Model ----------------------------
(***************************************************************************)
(* A model of the two concurrent cores of beagle:                          *)
(*                                                                         *)
(*   - the notification dispatcher, pkg/delivery/delivery.go (Sender):     *)
(*     Send validates a message and starts sendBatch in a goroutine of     *)
(*     its own; sendBatch attempts one delivery per subscriber and then    *)
(*     emits the outcomes to the listeners of an unlocked registry;        *)
(*   - the activity directory, src/server/monitoring/activity/service.go   *)
(*     (Service): a map of Records behind a sync.RWMutex, written by the   *)
(*     "found" and "lost" callbacks of the event broker.                   *)
(*                                                                         *)
(* The two cores share no state, so each has its own specifications:       *)
(* Spec, SpecRace, SpecRegistry and SpecLive for the dispatcher,           *)
(* SpecSingle for one sendSingle call, SpecDir and SpecRecords for the     *)
(* directory.                                                              *)
(***************************************************************************)
EXTENDS Integers, Sequences, FiniteSets, TLC

VARIABLES
    msgs,       \* dispatcher: the message of each Send call made so far
    ret,        \* dispatcher: what each Send call returned ("pending" before)
    bat,        \* dispatcher: the sendBatch goroutine of each Send call
    doLog,      \* history: per call, the Transport.Do calls and their results
    heard,      \* history: per call, the listener invocations made by emit
    regs,       \* history: per call, the registry when its emit began
    touched,    \* history: per call, the listeners added or removed during emit
    larr,       \* Sender.listeners: the backing array (ListenerCap slots)
    llen,       \* Sender.listeners: the length word of the slice header
    cpc,        \* the calling goroutine: idle, inside Send, inside Remove
    cret,       \* what the last call of the calling goroutine returned
    records,    \* directory: Service.records, the entries of the map
    mu,         \* directory: Service.mu, [w |-> writer, r |-> readers]
    topics,     \* directory: the broker topics Use has subscribed to
    tpc,        \* directory: each goroutine's position in a callback or a read
    lastEvt,    \* history: per key, the last callback that wrote the map, and
                \* whether it found an entry of the key in the map
    single      \* one sendSingle call on its own: its arguments and results

dvars == <<msgs, ret, bat, doLog, heard, regs, touched, larr, llen, cpc, cret>>
avars == <<records, mu, topics, tpc, lastEvt>>
svars == <<single>>
vars  == <<msgs, ret, bat, doLog, heard, regs, touched, larr, llen, cpc, cret,
           records, mu, topics, tpc, lastEvt, single>>

-----------------------------------------------------------------------------
(* Bounds of the model *)

MaxSubs == 2
MaxListeners == 2
MaxRegistered == 3
MaxThreads == 2
MaxTake == 2
MaxCalls == 2

(* make([]EventListener, 0, 5) *)
ListenerCap == 5

-----------------------------------------------------------------------------
(* The values of the dispatcher *)

NoError == "nil"
ErrUnsupportedEventName == "unsupported event name"
ErrMissedPeripheral == "missed peripheral"
ErrUnableToSerializePeripheral == "unable to serialize peripheral"
ErrEmptyUrl == "Endpoint has an empty url"
ErrCreateRequest == "failed to create a new request"
ErrTransport == "transport error"

EventNames == {"found", "lost", "", "moved"}

PERIPHERAL_IBEACON == "ibeacon"

(* A peripherals.Peripheral interface value: nil, or a concrete variant    *)
(* with the kind tag its Kind() returns; the last two carry a kind tag     *)
(* that is not their variant's.                                            *)
NilPeripheral == [variant |-> "nil", kind |-> "nil"]
Peripherals ==
    { NilPeripheral,
      [variant |-> "generic", kind |-> "generic"],
      [variant |-> "ibeacon", kind |-> PERIPHERAL_IBEACON],
      [variant |-> "generic", kind |-> PERIPHERAL_IBEACON],
      [variant |-> "ibeacon", kind |-> "generic"] }

NoHeaders == [h \in {} |-> ""]

(* A nil *notification.Endpoint *)
NoEndpoint == [name |-> "nil", url |-> "nil", method |-> "nil", headers |-> NoHeaders]

(* notification.Subscriber values: no endpoint, an endpoint with an empty  *)
(* URL, a POST endpoint (lower case), a GET endpoint that configures a     *)
(* Content-Type header, and an endpoint whose method is no HTTP token,     *)
(* which http.NewRequest refuses.                                          *)
Subscribers ==
    { [name |-> "s0", endpoint |-> NoEndpoint],
      [name |-> "s1", endpoint |->
          [name |-> "e1", url |-> "", method |-> "POST", headers |-> NoHeaders]],
      [name |-> "s2", endpoint |->
          [name |-> "e2", url |-> "http://sub/hook", method |-> "post",
           headers |-> NoHeaders]],
      [name |-> "s3", endpoint |->
          [name |-> "e3", url |-> "http://sub/q", method |-> "GET",
           headers |-> [h \in {"Content-Type"} |-> "text/plain"]]],
      [name |-> "s4", endpoint |->
          [name |-> "e4", url |-> "http://sub/x", method |-> "b ad",
           headers |-> NoHeaders]] }

SubscriberLists == UNION { [1..n -> Subscribers] : n \in 0..MaxSubs }

(* notification.Message: the inputs of Send *)
Messages ==
    [ eventName : EventNames, targetName : {"t"},
      peripheral : Peripherals, subscribers : SubscriberLists ]

NilListener == "nil"
Listeners == {"L1", "L2"}

-----------------------------------------------------------------------------
(* The pure functions of the dispatcher *)

(* isSupportedEventName with the two names forgotten: any name but ""     *)
isSupportedEventNameNonEmpty(name) == name # ""

(* Sender.isSupportedEventName *)
isSupportedEventName(name) ==
    IF name = "" THEN FALSE ELSE name = "found" \/ name = "lost"

(* The keys serializePeripheral always writes, and those of an ibeacon *)
BaseFields == {"name", "kind", "proximity", "accuracy"}
IBeaconFields == {"uuid", "major", "minor"}

(* What serializePeripheral stores under a key: the target name, the       *)
(* peripheral's kind tag, and the other accessors' values as tokens.       *)
FieldValue(k, name, peripheral) ==
    CASE k = "name" -> name
      [] k = "kind" -> peripheral.kind
      [] OTHER -> k

(* serializePeripheral that gives an absent peripheral an empty mapping    *)
(* and no error                                                            *)
serializePeripheralNilEmpty(name, peripheral) ==
    IF peripheral = NilPeripheral
    THEN [fields |-> NoHeaders, err |-> NoError]
    ELSE IF peripheral.kind = PERIPHERAL_IBEACON
         THEN IF peripheral.variant # "ibeacon"
              THEN [fields |-> NoHeaders, err |-> ErrUnableToSerializePeripheral]
              ELSE [fields |-> [k \in BaseFields \cup IBeaconFields |->
                                   FieldValue(k, name, peripheral)],
                    err |-> NoError]
         ELSE [fields |-> [k \in BaseFields |-> FieldValue(k, name, peripheral)],
               err |-> NoError]

(* Sender.serializePeripheral: (mapping, error) *)
serializePeripheral(name, peripheral) ==
    IF peripheral = NilPeripheral
    THEN [fields |-> NoHeaders, err |-> ErrMissedPeripheral]
    ELSE IF peripheral.kind = PERIPHERAL_IBEACON
         THEN IF peripheral.variant # "ibeacon"
              THEN [fields |-> NoHeaders, err |-> ErrUnableToSerializePeripheral]
              ELSE [fields |-> [k \in BaseFields \cup IBeaconFields |->
                                   FieldValue(k, name, peripheral)],
                    err |-> NoError]
         ELSE [fields |-> [k \in BaseFields |-> FieldValue(k, name, peripheral)],
               err |-> NoError]

(* strings.ToUpper on the methods of the model *)
ToUpper(method) ==
    CASE method = "post" -> "POST"
      [] method = "Post" -> "POST"
      [] method = "put" -> "PUT"
      [] method = "b ad" -> "B AD"
      [] OTHER -> method

(* http.NewRequest returns an error for a method that is no HTTP token *)
NewRequestFails(method, url) == method = "B AD"

(* url.QueryEscape on the keys serializePeripheral writes: they are made   *)
(* of letters, which it leaves as they are                                 *)
QueryEscape(k) == k

(* An empty query string *)
NoQuery == [pairs |-> {}, seps |-> 0, panic |-> FALSE]

(* Sender.encode. The string is kept up to the order of its pairs, which   *)
(* is the iteration order of the map: the pieces key, "=", value written   *)
(* for each entry, and the number of "&" in it. The loop writes one "&"    *)
(* after each pair and str[0:len(str)-1] cuts the last byte, which is the  *)
(* last "&"; on the empty string the slice expression is out of range and  *)
(* panics.                                                                 *)
encode(data) ==
    LET written == { <<QueryEscape(k), "=", data[k]>> : k \in DOMAIN data }
        ampersands == Cardinality(DOMAIN data)
    IN  IF ampersands = 0
        THEN [pairs |-> {}, seps |-> 0, panic |-> TRUE]
        ELSE [pairs |-> written, seps |-> ampersands - 1, panic |-> FALSE]

(* A request without a body *)
NoBody == [present |-> FALSE, json |-> NoHeaders]

NoRequest == [method |-> "nil", url |-> "nil", header |-> NoHeaders,
              body |-> NoBody, query |-> NoQuery]

(* textproto.CanonicalMIMEHeaderKey, which Header.Set applies to the key *)
CanonicalHeaderKey(h) ==
    CASE h = "content-type" -> "Content-Type"
      [] h = "x-token" -> "X-Token"
      [] OTHER -> h

(* The headers loop with the defaults applied last *)
ApplyHeadersDefaultsWin(header, headers) ==
    [h \in DOMAIN header \cup { CanonicalHeaderKey(k) : k \in DOMAIN headers } |->
        IF h \in DOMAIN header THEN header[h]
        ELSE headers[CHOOSE k \in DOMAIN headers : CanonicalHeaderKey(k) = h]]

(* req.Header.Set for every configured header, after the defaults *)
ApplyHeaders(header, headers) ==
    [h \in DOMAIN header \cup { CanonicalHeaderKey(k) : k \in DOMAIN headers } |->
        IF \E k \in DOMAIN headers : CanonicalHeaderKey(k) = h
        THEN headers[CHOOSE k \in DOMAIN headers : CanonicalHeaderKey(k) = h]
        ELSE header[h]]

(* sendSingle from strings.ToUpper to the headers loop: the request that   *)
(* is handed to Transport.Do                                               *)
BuildRequest(endpoint, serialized) ==
    LET method == ToUpper(endpoint.method) IN
    IF method = "POST"
    THEN [method |-> method, url |-> endpoint.url,
          header |-> ApplyHeaders([h \in {"Content-Type"} |-> "application/json"],
                                  endpoint.headers),
          body |-> [present |-> TRUE, json |-> serialized], query |-> NoQuery]
    ELSE [method |-> method, url |-> endpoint.url,
          header |-> ApplyHeaders(NoHeaders, endpoint.headers),
          body |-> NoBody, query |-> encode(serialized)]

(* sendSingle with a missing endpoint taken for an endpoint without URL *)
sendSingleNoSkip(name, peripheral, subscriber) ==
    LET s == serializePeripheral(name, peripheral)
        endpoint == subscriber.endpoint
    IN  IF s.err # NoError
        THEN [call |-> FALSE, err |-> s.err, req |-> NoRequest]
        ELSE IF endpoint = NoEndpoint \/ endpoint.url = ""
        THEN [call |-> FALSE, err |-> ErrEmptyUrl, req |-> NoRequest]
        ELSE IF NewRequestFails(ToUpper(endpoint.method), endpoint.url)
        THEN [call |-> FALSE, err |-> ErrCreateRequest, req |-> NoRequest]
        ELSE [call |-> TRUE, err |-> NoError,
              req |-> BuildRequest(endpoint, s.fields)]

(* sendSingle without the test of the URL *)
sendSingleNoUrlCheck(name, peripheral, subscriber) ==
    LET s == serializePeripheral(name, peripheral)
        endpoint == subscriber.endpoint
    IN  IF s.err # NoError
        THEN [call |-> FALSE, err |-> s.err, req |-> NoRequest]
        ELSE IF endpoint = NoEndpoint
        THEN [call |-> FALSE, err |-> NoError, req |-> NoRequest]
        ELSE IF NewRequestFails(ToUpper(endpoint.method), endpoint.url)
        THEN [call |-> FALSE, err |-> ErrCreateRequest, req |-> NoRequest]
        ELSE [call |-> TRUE, err |-> NoError,
              req |-> BuildRequest(endpoint, s.fields)]

(* Sender.sendSingle up to the Transport.Do call: either the error (or     *)
(* nil) it returns without calling the transport, or the request it calls  *)
(* the transport with.                                                     *)
sendSingle(name, peripheral, subscriber) ==
    LET s == serializePeripheral(name, peripheral)
        endpoint == subscriber.endpoint
    IN  IF s.err # NoError
        THEN [call |-> FALSE, err |-> s.err, req |-> NoRequest]
        ELSE IF endpoint = NoEndpoint
        THEN [call |-> FALSE, err |-> NoError, req |-> NoRequest]
        ELSE IF endpoint.url = ""
        THEN [call |-> FALSE, err |-> ErrEmptyUrl, req |-> NoRequest]
        ELSE IF NewRequestFails(ToUpper(endpoint.method), endpoint.url)
        THEN [call |-> FALSE, err |-> ErrCreateRequest, req |-> NoRequest]
        ELSE [call |-> TRUE, err |-> NoError,
              req |-> BuildRequest(endpoint, s.fields)]

(* Delivered with the test inverted *)
DeliveredOnError(err) == err # NoError

(* Delivered: err == nil, in sendBatch *)
Delivered(err) == err = NoError

(* The Event sendBatch builds for a subscriber and the error of its        *)
(* delivery (the subscriber by its name, the Timestamp left out)           *)
Event(msg, subscriber, err) ==
    [name |-> msg.eventName, targetName |-> msg.targetName,
     subscriber |-> subscriber.name, delivered |-> Delivered(err),
     error |-> err]

-----------------------------------------------------------------------------
(* One sendSingle call on its own *)

TargetNames == {"t", "zone 1"}

(* The subscribers of the dispatcher, and three more: a POST endpoint (in  *)
(* mixed case) that configures its own content type under a key in lower   *)
(* case, a PUT endpoint and a POST endpoint that configure another header. *)
SingleSubscribers ==
    Subscribers \cup
    { [name |-> "s5", endpoint |->
          [name |-> "e5", url |-> "http://sub/hook", method |-> "Post",
           headers |-> [h \in {"content-type"} |-> "text/xml"]]],
      [name |-> "s6", endpoint |->
          [name |-> "e6", url |-> "http://sub/put", method |-> "put",
           headers |-> [h \in {"x-token"} |-> "k"]]],
      [name |-> "s7", endpoint |->
          [name |-> "e7", url |-> "http://sub/hook", method |-> "POST",
           headers |-> [h \in {"X-Token"} |-> "k"]]] }

NoSingle ==
    [pc |-> "none", name |-> "", peripheral |-> NilPeripheral,
     subscriber |-> [name |-> "s0", endpoint |-> NoEndpoint],
     serialized |-> [fields |-> NoHeaders, err |-> NoError],
     out |-> [call |-> FALSE, err |-> NoError, req |-> NoRequest]]

InitSingle == single = NoSingle

(* sendSingle is called: its first statement serializes the peripheral *)
SingleSerialize(name, peripheral, subscriber) ==
    /\ single.pc = "none"
    /\ single' = [NoSingle EXCEPT !.pc = "serialized", !.name = name,
                                  !.peripheral = peripheral,
                                  !.subscriber = subscriber,
                                  !.serialized =
                                      serializePeripheral(name, peripheral)]

(* sendSingle runs up to its return or to the Transport.Do call *)
SingleDeliver ==
    /\ single.pc = "serialized"
    /\ single' = [single EXCEPT !.pc = "done",
                                !.out = sendSingle(single.name,
                                                   single.peripheral,
                                                   single.subscriber)]

(* sendSingle returns *)
SingleReturn ==
    /\ single.pc = "done"
    /\ single' = NoSingle

-----------------------------------------------------------------------------
(* The dispatcher: state *)

Idle == [op |-> "idle", c |-> 0, l |-> NilListener, idx |-> 0, j |-> 0,
         before |-> <<>>]

(* The goroutine of a Send call that was rejected: none *)
NoBatch == [pc |-> "none", events |-> <<>>,
            snap |-> 0, li |-> 0, ei |-> 0, cur |-> NilListener]

(* New: no listener, an empty array of capacity ListenerCap; no Send yet *)
InitSender ==
    /\ msgs = <<>>
    /\ ret = <<>>
    /\ bat = <<>>
    /\ doLog = <<>>
    /\ heard = <<>>
    /\ regs = <<>>
    /\ touched = <<>>
    /\ larr = [i \in 1..ListenerCap |-> NilListener]
    /\ llen = 0
    /\ cpc = Idle
    /\ cret = "void"

(* sender.listeners as the slice header and its array give it *)
Registry == SubSeq(larr, 1, llen)

Calls == 1..Len(msgs)

-----------------------------------------------------------------------------
(* The dispatcher: the calling goroutine *)

(* Sender.Send up to the go statement: the message is validated, and       *)
(* either the error is returned or sendBatch is started in a goroutine.    *)
Send(msg) ==
    /\ cpc = Idle
    /\ msgs' = Append(msgs, msg)
    /\ doLog' = Append(doLog, <<>>)
    /\ heard' = Append(heard, <<>>)
    /\ regs' = Append(regs, <<>>)
    /\ touched' = Append(touched, {})
    /\ IF ~isSupportedEventName(msg.eventName)
       THEN /\ ret' = Append(ret, ErrUnsupportedEventName)
            /\ bat' = Append(bat, NoBatch)
            /\ cpc' = cpc
            /\ cret' = ErrUnsupportedEventName
       ELSE /\ ret' = Append(ret, "pending")
            /\ bat' = Append(bat, [NoBatch EXCEPT !.pc = "loop"])
            /\ cpc' = [Idle EXCEPT !.op = "send", !.c = Len(msgs) + 1]
            /\ cret' = "pending"
    /\ UNCHANGED <<larr, llen>>

(* Send with sendBatch called in place: it returns when the batch is done *)
SendReturnAfterBatch ==
    /\ cpc.op = "send"
    /\ bat[cpc.c].pc = "done"
    /\ ret' = [ret EXCEPT ![cpc.c] = NoError]
    /\ cret' = NoError
    /\ cpc' = Idle
    /\ UNCHANGED <<msgs, bat, doLog, heard, regs, touched, larr, llen>>

(* Sender.Send: return nil, after the go statement *)
SendReturn ==
    /\ cpc.op = "send"
    /\ ret' = [ret EXCEPT ![cpc.c] = NoError]
    /\ cret' = NoError
    /\ cpc' = Idle
    /\ UNCHANGED <<msgs, bat, doLog, heard, regs, touched, larr, llen>>

(* History: the listener of a registry call is noted for every batch that  *)
(* is inside emit (EmitStart notes the listener of a removal under way).   *)
Touch(listener) ==
    [c \in DOMAIN touched |->
        IF bat[c].pc \in {"emit", "call"} /\ listener # NilListener
        THEN touched[c] \cup {listener} ELSE touched[c]]

(* Sender.AddEventListener: a nil listener is ignored, another is appended *)
(* in place (the registries of the model stay within the capacity of the   *)
(* array, so that append never allocates another).                         *)
AddEventListener(listener) ==
    /\ cpc = Idle
    /\ IF listener = NilListener
       THEN UNCHANGED <<larr, llen>>
       ELSE /\ larr' = [larr EXCEPT ![llen + 1] = listener]
            /\ llen' = llen + 1
    /\ touched' = Touch(listener)
    /\ cret' = "void"
    /\ UNCHANGED <<msgs, ret, bat, doLog, heard, regs, cpc>>

(* The index RemoveEventListener's loop leaves in idx (0: none; the model  *)
(* counts from 1): the loop does not stop at a match, so the last one.     *)
MatchIndex(listeners, listener) ==
    LET hits == { i \in 1..Len(listeners) : listeners[i] = listener }
    IN  IF hits = {} THEN 0 ELSE CHOOSE i \in hits : \A k \in hits : k <= i

(* Sender.RemoveEventListener up to the append: nil and a listener that    *)
(* is not registered return false.                                         *)
RemoveEventListener(listener) ==
    /\ cpc = Idle
    /\ LET idx == IF listener = NilListener THEN 0
                  ELSE MatchIndex(Registry, listener)
       IN  IF idx = 0
           THEN /\ cret' = "false"
                /\ cpc' = cpc
           ELSE /\ cret' = "pending"
                /\ cpc' = [Idle EXCEPT !.op = "remove", !.l = listener,
                              !.idx = idx, !.j = idx, !.before = Registry]
    /\ touched' = Touch(listener)
    /\ UNCHANGED <<msgs, ret, bat, doLog, heard, regs, larr, llen>>

(* append(listeners[:idx], listeners[idx+1:]...): the copy moves the       *)
(* elements after idx one slot down, in place, one at a time.              *)
RemoveShift ==
    /\ cpc.op = "remove"
    /\ cpc.j < llen
    /\ larr' = [larr EXCEPT ![cpc.j] = larr[cpc.j + 1]]
    /\ cpc' = [cpc EXCEPT !.j = cpc.j + 1]
    /\ UNCHANGED <<msgs, ret, bat, doLog, heard, regs, touched, llen, cret>>

(* The shortened slice header is stored in sender.listeners; return true *)
RemoveStore ==
    /\ cpc.op = "remove"
    /\ cpc.j = llen
    /\ llen' = llen - 1
    /\ cret' = "true"
    /\ cpc' = Idle
    /\ UNCHANGED <<msgs, ret, bat, doLog, heard, regs, touched, larr>>

-----------------------------------------------------------------------------
(* The dispatcher: the sendBatch goroutine of call c *)

Subs(c) == msgs[c].subscribers

(* A sendBatch that takes the subscribers from the last to the first *)
AttemptReversed(c) ==
    /\ bat[c].pc = "loop"
    /\ Len(bat[c].events) < Len(Subs(c))
    /\ LET i == Len(bat[c].events) + 1
           subscriber == Subs(c)[Len(Subs(c)) - i + 1]
           r == sendSingle(msgs[c].targetName, msgs[c].peripheral, subscriber)
       IN  IF r.call
           THEN /\ bat' = [bat EXCEPT ![c].pc = "do"]
                /\ doLog' = [doLog EXCEPT ![c] =
                               Append(@, [pos |-> i, req |-> r.req, err |-> "pending"])]
           ELSE /\ bat' = [bat EXCEPT ![c].events =
                               Append(@, Event(msgs[c], subscriber, r.err))]
                /\ doLog' = doLog
    /\ UNCHANGED <<msgs, ret, heard, regs, touched, larr, llen, cpc, cret>>

(* A sendBatch that waits while the batch of another call is in the       *)
(* transport                                                               *)
AttemptAlone(c) ==
    /\ bat[c].pc = "loop"
    /\ \A d \in Calls : bat[d].pc # "do"
    /\ Len(bat[c].events) < Len(Subs(c))
    /\ LET i == Len(bat[c].events) + 1
           subscriber == Subs(c)[i]
           r == sendSingle(msgs[c].targetName, msgs[c].peripheral, subscriber)
       IN  IF r.call
           THEN /\ bat' = [bat EXCEPT ![c].pc = "do"]
                /\ doLog' = [doLog EXCEPT ![c] =
                               Append(@, [pos |-> i, req |-> r.req, err |-> "pending"])]
           ELSE /\ bat' = [bat EXCEPT ![c].events =
                               Append(@, Event(msgs[c], subscriber, r.err))]
                /\ doLog' = doLog
    /\ UNCHANGED <<msgs, ret, heard, regs, touched, larr, llen, cpc, cret>>

(* sendBatch's loop body for the next subscriber: sendSingle either        *)
(* returns without the transport, and the Event is appended, or reaches    *)
(* sender.transport.Do(req).                                               *)
Attempt(c) ==
    /\ bat[c].pc = "loop"
    /\ Len(bat[c].events) < Len(Subs(c))
    /\ LET i == Len(bat[c].events) + 1
           subscriber == Subs(c)[i]
           r == sendSingle(msgs[c].targetName, msgs[c].peripheral, subscriber)
       IN  IF r.call
           THEN /\ bat' = [bat EXCEPT ![c].pc = "do"]
                /\ doLog' = [doLog EXCEPT ![c] =
                               Append(@, [pos |-> i, req |-> r.req, err |-> "pending"])]
           ELSE /\ bat' = [bat EXCEPT ![c].events =
                               Append(@, Event(msgs[c], subscriber, r.err))]
                /\ doLog' = doLog
    /\ UNCHANGED <<msgs, ret, heard, regs, touched, larr, llen, cpc, cret>>

(* A sendBatch that attempts the subscriber again when the transport fails *)
DoReturnRetry(c, err) ==
    /\ bat[c].pc = "do"
    /\ LET i == Len(bat[c].events) + 1
       IN  IF err = NoError
           THEN bat' = [bat EXCEPT ![c].pc = "loop",
                           ![c].events = Append(@, Event(msgs[c], Subs(c)[i], err))]
           ELSE bat' = [bat EXCEPT ![c].pc = "loop"]
    /\ doLog' = [doLog EXCEPT ![c][Len(doLog[c])].err = err]
    /\ UNCHANGED <<msgs, ret, heard, regs, touched, larr, llen, cpc, cret>>

(* Transport.Do returns err: sendSingle returns it, the Event is appended *)
DoReturn(c, err) ==
    /\ bat[c].pc = "do"
    /\ LET i == Len(bat[c].events) + 1
       IN  bat' = [bat EXCEPT ![c].pc = "loop",
                              ![c].events = Append(@, Event(msgs[c], Subs(c)[i], err))]
    /\ doLog' = [doLog EXCEPT ![c][Len(doLog[c])].err = err]
    /\ UNCHANGED <<msgs, ret, heard, regs, touched, larr, llen, cpc, cret>>

(* sender.emit(events): nothing for no event; otherwise the range          *)
(* statement reads the slice header of sender.listeners, once.             *)
EmitStart(c) ==
    /\ bat[c].pc = "loop"
    /\ Len(bat[c].events) = Len(Subs(c))
    /\ IF Len(bat[c].events) = 0
       THEN bat' = [bat EXCEPT ![c].pc = "done"]
       ELSE bat' = [bat EXCEPT ![c].pc = "emit", ![c].snap = llen, ![c].li = 1]
    /\ regs' = [regs EXCEPT ![c] = Registry]
    /\ touched' = [touched EXCEPT ![c] =
                      IF cpc.op = "remove" THEN {cpc.l} ELSE {}]
    /\ UNCHANGED <<msgs, ret, doLog, heard, larr, llen, cpc, cret>>

(* The outer loop of emit: the next element of the array is read, up to    *)
(* the length the range statement read.                                    *)
EmitNext(c) ==
    /\ bat[c].pc = "emit"
    /\ IF bat[c].li > bat[c].snap
       THEN bat' = [bat EXCEPT ![c].pc = "done"]
       ELSE bat' = [bat EXCEPT ![c].pc = "call", ![c].cur = larr[bat[c].li],
                               ![c].ei = 1]
    /\ UNCHANGED <<msgs, ret, doLog, heard, regs, touched, larr, llen, cpc, cret>>

(* The inner loop of emit: the listener is called with the next event *)
Invoke(c) ==
    /\ bat[c].pc = "call"
    /\ heard' = [heard EXCEPT ![c] =
                    Append(@, [listener |-> bat[c].cur, evt |-> bat[c].ei])]
    /\ IF bat[c].ei = Len(bat[c].events)
       THEN bat' = [bat EXCEPT ![c].pc = "emit", ![c].li = @ + 1, ![c].ei = 0,
                               ![c].cur = NilListener]
       ELSE bat' = [bat EXCEPT ![c].ei = @ + 1]
    /\ UNCHANGED <<msgs, ret, doLog, regs, touched, larr, llen, cpc, cret>>

-----------------------------------------------------------------------------
(* The activity directory *)

PERIPHERAL_FOUND == "found"
PERIPHERAL_LOST == "lost"

Threads == 1..MaxThreads

(* The peripherals the broker reports: two sightings of k1 that differ in  *)
(* kind and proximity, and one of k2.                                      *)
DirPeripherals ==
    { [key |-> "k1", kind |-> "generic", proximity |-> "near"],
      [key |-> "k1", kind |-> "ibeacon", proximity |-> "far"],
      [key |-> "k2", kind |-> "generic", proximity |-> "far"] }

Keys == { p.key : p \in DirPeripherals }

NoPeripheral == [key |-> "nil", kind |-> "nil", proximity |-> "nil"]

(* A Record that is none *)
NoRecord == [key |-> "nil", kind |-> "nil", proximity |-> "nil",
             registered |-> FALSE]

IdleThread == [pc |-> "idle", ev |-> "none", peripheral |-> NoPeripheral,
               registered |-> FALSE, val |-> 0,
               take |-> 0, skip |-> 0, list |-> <<>>, result |-> <<>>]

(* NewService: an unlocked mutex, an empty map; no broker attached yet *)
InitService ==
    /\ records = {}
    /\ mu = [w |-> 0, r |-> {}]
    /\ topics = {}
    /\ tpc = [t \in Threads |-> IdleThread]
    /\ lastEvt = [k \in Keys |-> [ev |-> "none", had |-> FALSE,
                                   rec |-> NoRecord]]

(* A Lock that does not wait for the readers *)
CanLockIgnoringReaders == mu.w = 0

(* sync.RWMutex: Lock waits for no writer and no reader, RLock for no writer *)
CanLock == mu.w = 0 /\ mu.r = {}
CanRLock == mu.w = 0

(* A store that adds the entry and leaves the key's earlier one *)
MapStoreAdd(m, key, record) == m \cup {record}

(* s.records[key] = record: the entry of the key is replaced *)
MapStore(m, key, record) == { e \in m : e.key # key } \cup {record}

(* A delete that leaves the map as it is *)
MapDeleteNothing(m, key) == m

(* A delete that empties the map *)
MapDeleteAll(m, key) == {}

(* delete(s.records, key) *)
MapDelete(m, key) == { e \in m : e.key # key }

(* Whether the map holds an entry of the key *)
HasKey(m, key) == \E e \in m : e.key = key

(* len(s.records) *)
MapLen(m) == Cardinality(m)

(* The Record the "found" handler builds (its Time is left out) *)
Record(peripheral, registered) ==
    [key |-> peripheral.key, kind |-> peripheral.kind,
     proximity |-> peripheral.proximity, registered |-> registered]

(* Service.Use: a nil broker subscribes nothing *)
Use(broker) ==
    /\ topics = {}
    /\ topics' = IF broker = "nil" THEN topics
                 ELSE {PERIPHERAL_FOUND, PERIPHERAL_LOST}
    /\ UNCHANGED <<records, mu, tpc, lastEvt>>

(* The broker calls the handler of a topic on goroutine t: s.mu.Lock() *)
HandlerLock(t, topic, peripheral, registered) ==
    /\ topic \in topics
    /\ tpc[t].pc = "idle"
    /\ CanLock
    /\ mu' = [mu EXCEPT !.w = t]
    /\ tpc' = [tpc EXCEPT ![t] = [IdleThread EXCEPT
                                      !.pc = "locked", !.ev = topic,
                                      !.peripheral = peripheral,
                                      !.registered = registered]]
    /\ UNCHANGED <<records, topics, lastEvt>>

(* The PERIPHERAL_FOUND handler: the Record of the key is stored *)
FoundWrite(t) ==
    /\ tpc[t].pc = "locked"
    /\ tpc[t].ev = PERIPHERAL_FOUND
    /\ records' = MapStore(records, tpc[t].peripheral.key,
                           Record(tpc[t].peripheral, tpc[t].registered))
    /\ lastEvt' = [lastEvt EXCEPT ![tpc[t].peripheral.key] =
                      [ev |-> PERIPHERAL_FOUND,
                       had |-> HasKey(records, tpc[t].peripheral.key),
                       rec |-> Record(tpc[t].peripheral, tpc[t].registered)]]
    /\ tpc' = [tpc EXCEPT ![t].pc = "written"]
    /\ UNCHANGED <<mu, topics>>

(* The PERIPHERAL_LOST handler: the key is deleted *)
LostWrite(t) ==
    /\ tpc[t].pc = "locked"
    /\ tpc[t].ev = PERIPHERAL_LOST
    /\ records' = MapDelete(records, tpc[t].peripheral.key)
    /\ lastEvt' = [lastEvt EXCEPT ![tpc[t].peripheral.key] =
                      [ev |-> PERIPHERAL_LOST,
                       had |-> HasKey(records, tpc[t].peripheral.key),
                       rec |-> NoRecord]]
    /\ tpc' = [tpc EXCEPT ![t].pc = "written"]
    /\ UNCHANGED <<mu, topics>>

(* defer s.mu.Unlock() of both handlers *)
HandlerUnlock(t) ==
    /\ tpc[t].pc = "written"
    /\ mu' = [mu EXCEPT !.w = 0]
    /\ tpc' = [tpc EXCEPT ![t] = IdleThread]
    /\ UNCHANGED <<records, topics, lastEvt>>

(* Service.Quantity: s.mu.RLock() *)
QuantityRLock(t) ==
    /\ tpc[t].pc = "idle"
    /\ CanRLock
    /\ mu' = [mu EXCEPT !.r = @ \cup {t}]
    /\ tpc' = [tpc EXCEPT ![t] = [IdleThread EXCEPT !.pc = "rlocked",
                                                    !.ev = "quantity"]]
    /\ UNCHANGED <<records, topics, lastEvt>>

(* Service.Quantity: len(s.records) is evaluated *)
QuantityRead(t) ==
    /\ tpc[t].pc = "rlocked"
    /\ tpc[t].ev = "quantity"
    /\ tpc' = [tpc EXCEPT ![t].pc = "read", ![t].val = MapLen(records)]
    /\ UNCHANGED <<records, mu, topics, lastEvt>>

(* Service.Quantity: the deferred s.mu.RUnlock(), and the return *)
QuantityRUnlock(t) ==
    /\ tpc[t].pc = "read"
    /\ tpc[t].ev = "quantity"
    /\ mu' = [mu EXCEPT !.r = @ \ {t}]
    /\ tpc' = [tpc EXCEPT ![t] = IdleThread]
    /\ UNCHANGED <<records, topics, lastEvt>>

(* The orders in which a range statement may iterate the map *)
Orders(m) ==
    { o \in [1..Cardinality(m) -> m] :
        \A i, j \in 1..Cardinality(m) : i # j => o[i] # o[j] }

(* The second loop of Service.GetRecords from index idx on: scanned is the *)
(* list the range statement iterates (it is evaluated once), list the      *)
(* variable the body assigns, result the slice that is returned. The body  *)
(* appends the copy of the record to result and stores the slice it gets   *)
(* in list: result itself is never assigned.                               *)
RECURSIVE GetRecordsLoop(_, _, _, _, _, _)
GetRecordsLoop(scanned, idx, list, result, resultSize, skip) ==
    IF idx >= Len(scanned)
    THEN [list |-> list, result |-> result]
    ELSE LET num == idx + 1 IN
         IF skip = 0 \/ skip > num
         THEN IF Len(result) = resultSize
              THEN [list |-> list, result |-> result]
              ELSE GetRecordsLoop(scanned, idx + 1,
                                  Append(result, scanned[idx + 1]),
                                  result, resultSize, skip)
         ELSE GetRecordsLoop(scanned, idx + 1, list, result, resultSize, skip)

(* Service.GetRecords on the map iterated in the given order *)
GetRecords(order, take, skip) ==
    LET resultSize == IF take = 0 THEN Len(order) ELSE take
    IN  GetRecordsLoop(order, 0, order, <<>>, resultSize, skip).result

(* Service.GetRecords: s.mu.RLock() *)
GetRecordsRLock(t, take, skip) ==
    /\ tpc[t].pc = "idle"
    /\ CanRLock
    /\ mu' = [mu EXCEPT !.r = @ \cup {t}]
    /\ tpc' = [tpc EXCEPT ![t] = [IdleThread EXCEPT !.pc = "rlocked",
                                                    !.ev = "getrecords",
                                                    !.take = take,
                                                    !.skip = skip]]
    /\ UNCHANGED <<records, topics, lastEvt>>

(* Service.GetRecords: the map is ranged over in some order and the result *)
(* is built                                                                *)
GetRecordsRead(t) ==
    /\ tpc[t].pc = "rlocked"
    /\ tpc[t].ev = "getrecords"
    /\ \E order \in Orders(records) :
           tpc' = [tpc EXCEPT ![t].pc = "read", ![t].list = order,
                              ![t].result =
                                  GetRecords(order, tpc[t].take, tpc[t].skip)]
    /\ UNCHANGED <<records, mu, topics, lastEvt>>

(* Service.GetRecords: the deferred s.mu.RUnlock(), and the return *)
GetRecordsRUnlock(t) ==
    /\ tpc[t].pc = "read"
    /\ tpc[t].ev = "getrecords"
    /\ mu' = [mu EXCEPT !.r = @ \ {t}]
    /\ tpc' = [tpc EXCEPT ![t] = IdleThread]
    /\ UNCHANGED <<records, topics, lastEvt>>

-----------------------------------------------------------------------------
(* The specifications *)

Init == InitSender /\ InitService /\ InitSingle

(* The steps of the dispatcher: one Send call, of a message of pool, and   *)
(* the batch it starts (batches share nothing but the registry, which      *)
(* they only read), and the registry calls of the calling goroutine: at    *)
(* any moment when free, only before the Send call otherwise.              *)
NextOf(pool, lpool, free) ==
    \/ /\ msgs = <<>>
       /\ \E msg \in pool : Send(msg)
       /\ UNCHANGED <<avars, svars>>
    \/ SendReturn /\ UNCHANGED <<avars, svars>>
    \/ /\ free \/ msgs = <<>>
       /\ llen < MaxListeners
       /\ \E l \in lpool \cup {NilListener} : AddEventListener(l)
       /\ UNCHANGED <<avars, svars>>
    \/ /\ free \/ msgs = <<>>
       /\ \E l \in lpool \cup {NilListener} : RemoveEventListener(l)
       /\ UNCHANGED <<avars, svars>>
    \/ RemoveShift /\ UNCHANGED <<avars, svars>>
    \/ RemoveStore /\ UNCHANGED <<avars, svars>>
    \/ \E c \in Calls : Attempt(c) /\ UNCHANGED <<avars, svars>>
    \/ \E c \in Calls : \E err \in {NoError, ErrTransport} :
           DoReturn(c, err) /\ UNCHANGED <<avars, svars>>
    \/ \E c \in Calls : EmitStart(c) /\ UNCHANGED <<avars, svars>>
    \/ \E c \in Calls : EmitNext(c) /\ UNCHANGED <<avars, svars>>
    \/ \E c \in Calls : Invoke(c) /\ UNCHANGED <<avars, svars>>

(* The dispatcher with every message: listeners are registered, then one   *)
(* Send call is made and its batch runs (RemoveEventListener is left to    *)
(* SpecRace and SpecRegistry).                                             *)
Next ==
    \/ /\ msgs = <<>>
       /\ \E msg \in Messages : Send(msg)
       /\ UNCHANGED <<avars, svars>>
    \/ SendReturn /\ UNCHANGED <<avars, svars>>
    \/ /\ msgs = <<>>
       /\ llen < MaxListeners
       /\ \E l \in {"L1", NilListener} : AddEventListener(l)
       /\ UNCHANGED <<avars, svars>>
    \/ \E c \in Calls : Attempt(c) /\ UNCHANGED <<avars, svars>>
    \/ \E c \in Calls : \E err \in {NoError, ErrTransport} :
           DoReturn(c, err) /\ UNCHANGED <<avars, svars>>
    \/ \E c \in Calls : EmitStart(c) /\ UNCHANGED <<avars, svars>>
    \/ \E c \in Calls : EmitNext(c) /\ UNCHANGED <<avars, svars>>
    \/ \E c \in Calls : Invoke(c) /\ UNCHANGED <<avars, svars>>

Spec == Init /\ [][Next]_vars

(* The dispatcher with a few messages and registry calls at any moment *)
RaceMessages ==
    { m \in Messages :
        /\ m.eventName \in {"found", "moved"}
        /\ m.peripheral.variant = "generic" /\ m.peripheral.kind = "generic"
        /\ \A i \in 1..Len(m.subscribers) : m.subscribers[i].name \in {"s2"}
        /\ Len(m.subscribers) <= 2 }

NextRace == NextOf(RaceMessages, Listeners, TRUE)

SpecRace == Init /\ [][NextRace]_vars

(* The registry alone: the calls of AddEventListener and                   *)
(* RemoveEventListener of one goroutine, up to MaxRegistered listeners     *)
NextRegistry ==
    \/ /\ llen < MaxRegistered
       /\ \E l \in Listeners \cup {NilListener} : AddEventListener(l)
       /\ UNCHANGED <<avars, svars>>
    \/ \E l \in Listeners \cup {NilListener} : RemoveEventListener(l) /\ UNCHANGED <<avars, svars>>
    \/ RemoveShift /\ UNCHANGED <<avars, svars>>
    \/ RemoveStore /\ UNCHANGED <<avars, svars>>

SpecRegistry == Init /\ [][NextRegistry]_vars

(* The directory *)
NextDir ==
    \/ \E b \in {"nil", "broker"} : Use(b) /\ UNCHANGED <<dvars, svars>>
    \/ \E t \in Threads, topic \in {PERIPHERAL_FOUND, PERIPHERAL_LOST},
          p \in DirPeripherals, registered \in BOOLEAN :
           HandlerLock(t, topic, p, registered) /\ UNCHANGED <<dvars, svars>>
    \/ \E t \in Threads : FoundWrite(t) /\ UNCHANGED <<dvars, svars>>
    \/ \E t \in Threads : LostWrite(t) /\ UNCHANGED <<dvars, svars>>
    \/ \E t \in Threads : HandlerUnlock(t) /\ UNCHANGED <<dvars, svars>>
    \/ \E t \in Threads : QuantityRLock(t) /\ UNCHANGED <<dvars, svars>>
    \/ \E t \in Threads : QuantityRead(t) /\ UNCHANGED <<dvars, svars>>
    \/ \E t \in Threads : QuantityRUnlock(t) /\ UNCHANGED <<dvars, svars>>

SpecDir == Init /\ [][NextDir]_vars

(* The directory and its listing: the callbacks of the broker on any       *)
(* goroutine, and GetRecords calls of one goroutine (GetRecords holds the  *)
(* read lock alone and writes nothing the other calls read).               *)
NextRecords ==
    \/ \E b \in {"nil", "broker"} : Use(b) /\ UNCHANGED <<dvars, svars>>
    \/ \E t \in Threads, topic \in {PERIPHERAL_FOUND, PERIPHERAL_LOST},
          p \in DirPeripherals, registered \in BOOLEAN :
           HandlerLock(t, topic, p, registered) /\ UNCHANGED <<dvars, svars>>
    \/ \E t \in Threads : FoundWrite(t) /\ UNCHANGED <<dvars, svars>>
    \/ \E t \in Threads : LostWrite(t) /\ UNCHANGED <<dvars, svars>>
    \/ \E t \in Threads : HandlerUnlock(t) /\ UNCHANGED <<dvars, svars>>
    \/ \E take \in 0..MaxTake, skip \in 0..MaxTake :
           GetRecordsRLock(1, take, skip) /\ UNCHANGED <<dvars, svars>>
    \/ GetRecordsRead(1) /\ UNCHANGED <<dvars, svars>>
    \/ GetRecordsRUnlock(1) /\ UNCHANGED <<dvars, svars>>

SpecRecords == Init /\ [][NextRecords]_vars

(* Several Send calls, each with its batch, after the registry was set up  *)
(* with one listener or none:                                              *)
(* a message that is rejected, and messages of no subscriber, of a         *)
(* subscriber without URL and of a POST subscriber.                        *)
LiveMessages ==
    { m \in Messages :
        /\ m.eventName \in {"found", "moved"}
        /\ m.peripheral.variant = "generic" /\ m.peripheral.kind = "generic"
        /\ Len(m.subscribers) <= 1
        /\ m.eventName = "moved" => Len(m.subscribers) = 0
        /\ \A i \in 1..Len(m.subscribers) :
               m.subscribers[i].name \in {"s1", "s2"} }

(* A step of the sendBatch goroutine of call c that waits for nothing *)
BatchStep(c) ==
    /\ c \in Calls
    /\ Attempt(c) \/ EmitStart(c) \/ EmitNext(c)
    /\ UNCHANGED <<avars, svars>>

(* The Transport.Do call of the batch of call c returns *)
DoStep(c) ==
    /\ c \in Calls
    /\ \E err \in {NoError, ErrTransport} : DoReturn(c, err)
    /\ UNCHANGED <<avars, svars>>

(* The listener the batch of call c has called returns *)
InvokeStep(c) ==
    /\ c \in Calls
    /\ Invoke(c)
    /\ UNCHANGED <<avars, svars>>

NextLive ==
    \/ /\ Len(msgs) < MaxCalls
       /\ \E msg \in LiveMessages : Send(msg)
       /\ UNCHANGED <<avars, svars>>
    \/ SendReturn /\ UNCHANGED <<avars, svars>>
    \/ /\ msgs = <<>>
       /\ llen = 0
       /\ \E l \in {"L1"} : AddEventListener(l)
       /\ UNCHANGED <<avars, svars>>
    \/ \E c \in 1..MaxCalls : BatchStep(c)
    \/ \E c \in 1..MaxCalls : DoStep(c)
    \/ \E c \in 1..MaxCalls : InvokeStep(c)

(* The scheduler is fair to every goroutine that can run; nothing is       *)
(* assumed of the transport and of the listeners.                          *)
SpecLive ==
    Init /\ [][NextLive]_vars /\ \A c \in 1..MaxCalls : WF_vars(BatchStep(c))

(* sendSingle alone, on every target name, peripheral and subscriber *)
NextSingle ==
    \/ \E name \in TargetNames, peripheral \in Peripherals,
          subscriber \in SingleSubscribers :
           SingleSerialize(name, peripheral, subscriber)
               /\ UNCHANGED <<dvars, avars>>
    \/ SingleDeliver /\ UNCHANGED <<dvars, avars>>
    \/ SingleReturn /\ UNCHANGED <<dvars, avars>>

SpecSingle == Init /\ [][NextSingle]_vars

-----------------------------------------------------------------------------
(* The claims about the dispatcher *)

SupportedNames == {"found", "lost"}

(* How often x occurs in the sequence seq *)
Occurrences(seq, x) == Cardinality({ i \in DOMAIN seq : seq[i] = x })

(* The peripheral is present and, when its kind tag is ibeacon, is an      *)
(* ibeacon: it can be serialized.                                          *)
PeripheralSerializes(p) ==
    p # NilPeripheral /\ (p.kind = "ibeacon" => p.variant = "ibeacon")

(* The error of serializing a peripheral that cannot be *)
SerializationError(p) ==
    IF p = NilPeripheral THEN ErrMissedPeripheral ELSE ErrUnableToSerializePeripheral

(* Transport.Do was called for subscriber i of call c *)
DoCalled(c, i) == \E j \in DOMAIN doLog[c] : doLog[c][j].pos = i

(* Transport.Do was called for subscriber i of call c and returned no error *)
DoSucceeded(c, i) ==
    \E j \in DOMAIN doLog[c] : doLog[c][j].pos = i /\ doLog[c][j].err = NoError

(* C1: a Send call whose event name is neither "found" nor "lost" returns  *)
(* the UnsupportedEventName error, starts no batch, makes no Transport.Do  *)
(* call, and no listener is invoked for it.                                *)
C1_UnsupportedNameRejected ==
    \A c \in Calls :
        msgs[c].eventName \notin SupportedNames =>
            /\ ret[c] = ErrUnsupportedEventName
            /\ bat[c].pc = "none"
            /\ doLog[c] = <<>>
            /\ heard[c] = <<>>

(* C1, its case: a message with the empty name and a subscriber was        *)
(* rejected while a listener was registered.                               *)
C1_Witness ==
    \E c \in Calls :
        /\ msgs[c].eventName = ""
        /\ Len(msgs[c].subscribers) > 0
        /\ ret[c] = ErrUnsupportedEventName
        /\ llen > 0

(* C2: once a batch has finished, every listener that stayed registered    *)
(* during the emission (no AddEventListener or RemoveEventListener call    *)
(* named it) has received each outcome of the batch once per registration: *)
(* n outcomes, one per subscriber.                                         *)
C2_EachListenerHearsEachOutcome ==
    \A c \in Calls :
        bat[c].pc = "done" =>
            \A l \in Listeners \ touched[c] :
                \A k \in 1..Len(Subs(c)) :
                    Occurrences(heard[c], [listener |-> l, evt |-> k])
                        = Occurrences(regs[c], l)

(* C3, as claimed: an outcome is delivered iff the endpoint is present     *)
(* with a non-empty URL and Transport.Do returned no error for it, and     *)
(* carries an error iff it is not delivered.                               *)
C3_DeliveredIffEndpointAndTransportOk ==
    \A c \in Calls :
        \A i \in 1..Len(bat[c].events) :
            LET e == bat[c].events[i]
                endpoint == Subs(c)[i].endpoint
            IN  /\ e.delivered <=>
                      (endpoint # NoEndpoint /\ endpoint.url # "" /\ DoSucceeded(c, i))
                /\ (e.error # NoError) <=> ~e.delivered

(* C3, amended: an outcome is delivered iff Transport.Do returned no error *)
(* for its subscriber (whose endpoint then is present with a non-empty     *)
(* URL), or the subscriber has no endpoint and the peripheral can be       *)
(* serialized; it carries an error iff it is not delivered.                *)
C3_DeliveredIffNoErrorInPath ==
    \A c \in Calls :
        \A i \in 1..Len(bat[c].events) :
            LET e == bat[c].events[i]
                endpoint == Subs(c)[i].endpoint
            IN  /\ e.delivered <=>
                      \/ endpoint # NoEndpoint /\ endpoint.url # "" /\ DoSucceeded(c, i)
                      \/ endpoint = NoEndpoint /\ PeripheralSerializes(msgs[c].peripheral)
                /\ (e.error # NoError) <=> ~e.delivered

(* C3, its case: a finished batch with an outcome delivered through the    *)
(* transport and an outcome the transport failed.                          *)
C3_Witness ==
    \E c \in Calls :
        /\ bat[c].pc = "done"
        /\ \E i \in 1..Len(bat[c].events) :
               bat[c].events[i].delivered /\ DoSucceeded(c, i)
        /\ \E i \in 1..Len(bat[c].events) :
               ~bat[c].events[i].delivered /\ bat[c].events[i].error = ErrTransport

(* C4, as claimed: whatever the peripheral, the outcome of a subscriber    *)
(* without endpoint is delivered, without error, and Transport.Do is not   *)
(* called for it.                                                          *)
C4_NoEndpointAlwaysDelivered ==
    \A c \in Calls :
        \A i \in 1..Len(Subs(c)) :
            Subs(c)[i].endpoint = NoEndpoint =>
                /\ ~DoCalled(c, i)
                /\ i <= Len(bat[c].events) =>
                       /\ bat[c].events[i].delivered
                       /\ bat[c].events[i].error = NoError

(* C4, amended: Transport.Do is never called for a subscriber without      *)
(* endpoint; its outcome is delivered, without error, when the peripheral  *)
(* can be serialized, and is not delivered, with the serialization error,  *)
(* when the peripheral is absent or is tagged ibeacon and is none.         *)
C4_NoEndpointDeliveredIfSerialized ==
    \A c \in Calls :
        \A i \in 1..Len(Subs(c)) :
            Subs(c)[i].endpoint = NoEndpoint =>
                /\ ~DoCalled(c, i)
                /\ i <= Len(bat[c].events) =>
                       IF PeripheralSerializes(msgs[c].peripheral)
                       THEN /\ bat[c].events[i].delivered
                            /\ bat[c].events[i].error = NoError
                       ELSE /\ ~bat[c].events[i].delivered
                            /\ bat[c].events[i].error =
                                   SerializationError(msgs[c].peripheral)

(* C4, its case: in a finished batch that reached the transport for        *)
(* another subscriber, a subscriber without endpoint has its delivered     *)
(* outcome.                                                                *)
C4_Witness ==
    \E c \in Calls :
        /\ bat[c].pc = "done"
        /\ doLog[c] # <<>>
        /\ \E i \in 1..Len(bat[c].events) :
               /\ Subs(c)[i].endpoint = NoEndpoint
               /\ bat[c].events[i].delivered

(* C5, as claimed: whatever the peripheral, the outcome of a subscriber    *)
(* whose endpoint has an empty URL is not delivered and carries the        *)
(* empty-URL error, and Transport.Do is not called for it.                 *)
C5_EmptyUrlAlwaysEmptyUrlError ==
    \A c \in Calls :
        \A i \in 1..Len(Subs(c)) :
            (Subs(c)[i].endpoint # NoEndpoint /\ Subs(c)[i].endpoint.url = "") =>
                /\ ~DoCalled(c, i)
                /\ i <= Len(bat[c].events) =>
                       /\ ~bat[c].events[i].delivered
                       /\ bat[c].events[i].error = ErrEmptyUrl

(* C5, amended: the outcome of a subscriber whose endpoint has an empty    *)
(* URL is not delivered and Transport.Do is not called for it; its error   *)
(* is the empty-URL error when the peripheral can be serialized, and the   *)
(* serialization error otherwise.                                          *)
C5_EmptyUrlNeverDelivered ==
    \A c \in Calls :
        \A i \in 1..Len(Subs(c)) :
            (Subs(c)[i].endpoint # NoEndpoint /\ Subs(c)[i].endpoint.url = "") =>
                /\ ~DoCalled(c, i)
                /\ i <= Len(bat[c].events) =>
                       /\ ~bat[c].events[i].delivered
                       /\ bat[c].events[i].error =
                              IF PeripheralSerializes(msgs[c].peripheral)
                              THEN ErrEmptyUrl
                              ELSE SerializationError(msgs[c].peripheral)

(* C5, its case: in a finished batch that reached the transport for        *)
(* another subscriber, a subscriber with an empty URL has its outcome.     *)
C5_Witness ==
    \E c \in Calls :
        /\ bat[c].pc = "done"
        /\ doLog[c] # <<>>
        /\ \E i \in 1..Len(bat[c].events) :
               /\ Subs(c)[i].endpoint # NoEndpoint
               /\ Subs(c)[i].endpoint.url = ""
               /\ bat[c].events[i].error = ErrEmptyUrl

(* C6, as claimed: whenever Transport.Do has been called for a batch, the  *)
(* Send call that started the batch has returned.                          *)
C6_ReturnPrecedesFirstDo ==
    \A c \in Calls : doLog[c] # <<>> => ret[c] = NoError

(* C6, amended: Send of an accepted message starts the batch and returns   *)
(* no error without waiting for it: from the go statement on, whatever     *)
(* the batch has done or not done, the return of Send is the caller's next *)
(* step and can be taken (so the first Transport.Do call may come before   *)
(* or after it).                                                           *)
C6_SendDoesNotWaitForBatch ==
    \A c \in Calls :
        msgs[c].eventName \in SupportedNames =>
            /\ bat[c].pc # "none"
            /\ ret[c] \in {"pending", NoError}
            /\ ret[c] = "pending" =>
                   /\ cpc.op = "send" /\ cpc.c = c
                   /\ ENABLED SendReturn

(* C6, its case: Transport.Do has been called and Send has not returned *)
C6_Witness ==
    \E c \in Calls : ret[c] = "pending" /\ doLog[c] # <<>>

(* C7: Transport.Do is called at most once for each subscriber position of *)
(* a call, in the order of the positions, and each position has one        *)
(* outcome, which carries the error of its Transport.Do call when one was  *)
(* made: a failed delivery is not attempted again.                         *)
C7_NoRetry ==
    \A c \in Calls :
        /\ \A j, k \in DOMAIN doLog[c] : j < k => doLog[c][j].pos < doLog[c][k].pos
        /\ Len(bat[c].events) <= Len(Subs(c))
        /\ \A i \in 1..Len(bat[c].events) :
               bat[c].events[i].subscriber = Subs(c)[i].name
        /\ \A j \in DOMAIN doLog[c] :
               doLog[c][j].err # "pending" =>
                   /\ doLog[c][j].pos <= Len(bat[c].events)
                   /\ bat[c].events[doLog[c][j].pos].error = doLog[c][j].err
        /\ bat[c].pc \in {"emit", "call", "done"} =>
               Len(bat[c].events) = Len(Subs(c))

(* C7, its case: a finished batch whose first Transport.Do call failed and *)
(* that went on to its second subscriber.                                  *)
C7_Witness ==
    \E c \in Calls :
        /\ bat[c].pc = "done"
        /\ Len(bat[c].events) = 2
        /\ doLog[c] # <<>>
        /\ doLog[c][1].pos = 1
        /\ doLog[c][1].err = ErrTransport

(* The registry without its first entry equal to listener, if any *)
RemoveFirst(listeners, listener) ==
    LET hits == { i \in 1..Len(listeners) : listeners[i] = listener }
    IN  IF listener = NilListener \/ hits = {}
        THEN listeners
        ELSE LET i == CHOOSE h \in hits : \A k \in hits : h <= k
             IN  SubSeq(listeners, 1, i - 1) \o SubSeq(listeners, i + 1, Len(listeners))

(* C8: a RemoveEventListener call that returns true has removed the first  *)
(* registration of its listener and left the others in their order, and a  *)
(* call that returns false has left the registry as it was.                *)
C8_RemovesFirstRegistration ==
    [][ /\ (cpc.op = "remove" /\ cpc'.op = "idle") =>
               /\ cret' = "true"
               /\ SubSeq(larr', 1, llen') = RemoveFirst(cpc.before, cpc.l)
        /\ (cpc.op = "idle" /\ cret' = "false") => UNCHANGED <<larr, llen>>
      ]_vars

(* The listeners emit served for call c, one for each round of outcomes *)
Served(c) ==
    LET first == SelectSeq(heard[c], LAMBDA h : h.evt = 1)
    IN  [j \in DOMAIN first |-> first[j].listener]

(* C9: no listener is invoked before every subscriber was attempted; the   *)
(* invocations come in rounds, a round being all the outcomes in order for *)
(* one listener; and once the batch has finished, the rounds of the        *)
(* listeners that stayed registered during the emission are their          *)
(* registrations, in registration order (a batch without outcome invokes   *)
(* no listener).                                                           *)
C9_ListenersServedInOrder ==
    \A c \in Calls :
        LET n == Len(Subs(c)) IN
        /\ heard[c] # <<>> => Len(bat[c].events) = n
        /\ \A j \in DOMAIN heard[c] :
               /\ heard[c][j].evt = ((j - 1) % n) + 1
               /\ heard[c][j].listener = heard[c][j - ((j - 1) % n)].listener
        /\ (bat[c].pc = "done" /\ n > 0) =>
               SelectSeq(Served(c), LAMBDA l : l \notin touched[c])
                   = SelectSeq(regs[c], LAMBDA l : l \notin touched[c])

(* C16: in a batch at most one Transport.Do call is in flight, the last    *)
(* one made; the calls are made in the order of the subscriber list, each  *)
(* for the subscriber that follows those whose outcome is recorded, and    *)
(* with the request of that subscriber; the outcomes are recorded in the   *)
(* order of the list; and a listener is given them from the first on, one  *)
(* after the other.                                                        *)
C16_SequentialInListOrder ==
    \A c \in Calls :
        /\ \A j \in DOMAIN doLog[c] :
               /\ doLog[c][j].err = "pending" =>
                      (j = Len(doLog[c]) /\ Len(bat[c].events) = doLog[c][j].pos - 1)
               /\ doLog[c][j].err # "pending" =>
                      Len(bat[c].events) >= doLog[c][j].pos
               /\ doLog[c][j].req =
                      sendSingle(msgs[c].targetName, msgs[c].peripheral,
                                 Subs(c)[doLog[c][j].pos]).req
               /\ \A k \in DOMAIN doLog[c] :
                      j < k => doLog[c][j].pos < doLog[c][k].pos
        /\ \A i \in DOMAIN bat[c].events :
               bat[c].events[i].subscriber = Subs(c)[i].name
        /\ \A j \in DOMAIN heard[c] :
               /\ heard[c][j].evt \in DOMAIN bat[c].events
               /\ heard[c][j].evt > 1 =>
                      /\ j > 1
                      /\ heard[c][j - 1].evt = heard[c][j].evt - 1
                      /\ heard[c][j - 1].listener = heard[c][j].listener

(* C16, its case: a batch of two different subscribers has called the      *)
(* transport for both and a listener has received both outcomes.           *)
C16_Witness ==
    \E c \in Calls :
        /\ Len(Subs(c)) = 2 /\ Subs(c)[1] # Subs(c)[2]
        /\ Len(doLog[c]) = 2
        /\ Len(heard[c]) >= 2

(* C18, as claimed: a listener that is registered once when the emission   *)
(* of a batch begins, and that no AddEventListener or RemoveEventListener  *)
(* call names since, is never invoked twice for an outcome of the batch,   *)
(* whatever calls for other listeners run meanwhile, and has been invoked  *)
(* for every outcome when the batch has finished.                          *)
C18_RegisteredListenerOncePerOutcome ==
    \A c \in Calls :
        \A l \in Listeners \ touched[c] :
            Occurrences(regs[c], l) = 1 =>
                \A k \in 1..Len(Subs(c)) :
                    LET times == Occurrences(heard[c],
                                             [listener |-> l, evt |-> k])
                    IN  /\ times <= 1
                        /\ bat[c].pc = "done" => times = 1

(* Send accepted the message of call c *)
Accepted(c) == c \in Calls /\ ret[c] # ErrUnsupportedEventName

(* The batch of call c has finished: every subscriber was attempted and,   *)
(* when there is one, every listener of the registry has received every    *)
(* outcome.                                                                *)
Completed(c) ==
    /\ c \in Calls
    /\ bat[c].pc = "done"
    /\ Len(bat[c].events) = Len(Subs(c))
    /\ \A i \in DOMAIN regs[c] : \A k \in 1..Len(Subs(c)) :
           regs[c][i] \notin touched[c] =>
               \E j \in DOMAIN heard[c] :
                   heard[c][j] = [listener |-> regs[c][i], evt |-> k]

IsPost(method) == method \in {"POST", "post", "Post"}

(* The Content-Type headers an endpoint configures, in any letter case *)
OwnContentType(endpoint) ==
    { h \in DOMAIN endpoint.headers : h \in {"Content-Type", "content-type"} }

(* C15: the request sendSingle hands to Transport.Do for a POST endpoint   *)
(* (in any letter case) has the field mapping as its JSON body, nothing    *)
(* written to its query string, and the Content-Type the endpoint          *)
(* configures, application/json when it configures none; the request for   *)
(* any other method has no body and a query string made of one key=value   *)
(* pair for each field of the mapping, joined by "&".                      *)
C15_PostBodyOthersQuery ==
    (single.pc = "done" /\ single.out.call) =>
        LET endpoint == single.subscriber.endpoint
            req == single.out.req
            fields == single.serialized.fields
        IN  IF IsPost(endpoint.method)
            THEN /\ req.body.present /\ req.body.json = fields
                 /\ req.query = NoQuery
                 /\ "Content-Type" \in DOMAIN req.header
                 /\ req.header["Content-Type"] =
                        IF OwnContentType(endpoint) = {}
                        THEN "application/json"
                        ELSE endpoint.headers[
                                 CHOOSE h \in OwnContentType(endpoint) : TRUE]
            ELSE /\ ~req.body.present
                 /\ ~req.query.panic
                 /\ req.query.pairs =
                        { <<k, "=", fields[k]>> : k \in DOMAIN fields }
                 /\ req.query.seps = Cardinality(DOMAIN fields) - 1
                 /\ Cardinality(req.query.pairs) = Cardinality(DOMAIN fields)

(* C15, its case: a request for a POST endpoint that configures its own    *)
(* content type.                                                           *)
C15_Witness ==
    /\ single.pc = "done" /\ single.out.call
    /\ single.subscriber.name = "s5"
    /\ single.out.req.header["Content-Type"] = "text/xml"
    /\ single.out.req.body.present

(* encode runs in the sendSingle call: it reached the Transport.Do call    *)
(* for an endpoint whose method is not POST                                *)
EncodeRan ==
    /\ single.pc = "done"
    /\ single.serialized.err = NoError
    /\ single.subscriber.endpoint # NoEndpoint
    /\ single.subscriber.endpoint.url # ""
    /\ ~NewRequestFails(ToUpper(single.subscriber.endpoint.method),
                        single.subscriber.endpoint.url)
    /\ ~IsPost(single.subscriber.endpoint.method)

(* C19: whenever encode runs in a delivery, the mapping it is given holds  *)
(* the fields name, kind, proximity and accuracy, and the cut of the last  *)
(* byte is within the string.                                              *)
C19_EncodeNeverOnEmptyMapping ==
    EncodeRan =>
        /\ {"name", "kind", "proximity", "accuracy"}
               \subseteq DOMAIN single.serialized.fields
        /\ single.out.call
        /\ ~single.out.req.query.panic

(* C19, its case: encode has run on the mapping of a peripheral that is    *)
(* no ibeacon.                                                             *)
C19_Witness ==
    /\ EncodeRan
    /\ DOMAIN single.serialized.fields = {"name", "kind", "proximity", "accuracy"}
    /\ single.out.req.query.seps = 3

-----------------------------------------------------------------------------
(* The claims about the directory *)

(* The keys whose last callback was "found" *)
VisibleKeys == { k \in Keys : lastEvt[k].ev = PERIPHERAL_FOUND }

(* C10: the directory holds at most one Record for a key, and the number   *)
(* of Records, which a Quantity call returns while it holds the read lock, *)
(* is the number of keys whose last callback was "found".                  *)
C10_OneRecordPerVisibleKey ==
    /\ \A k \in Keys : Cardinality({ e \in records : e.key = k }) <= 1
    /\ MapLen(records) = Cardinality(VisibleKeys)
    /\ \A t \in Threads :
           (tpc[t].ev = "quantity" /\ tpc[t].pc = "read") =>
               tpc[t].val = Cardinality(VisibleKeys)

(* C10, its case: Quantity returns 1 after a "found" callback for k1 that  *)
(* found a Record of k1 in the directory.                                  *)
C10_Witness ==
    \E t \in Threads :
        /\ tpc[t].ev = "quantity" /\ tpc[t].pc = "read"
        /\ tpc[t].val = 1
        /\ lastEvt["k1"].ev = PERIPHERAL_FOUND
        /\ lastEvt["k1"].had

(* A GetRecords call of goroutine t has built its result and holds the     *)
(* read lock                                                               *)
GetRecordsDone(t) == tpc[t].ev = "getrecords" /\ tpc[t].pc = "read"

Min(a, b) == IF a < b THEN a ELSE b
Max(a, b) == IF a > b THEN a ELSE b

(* C11, as claimed: GetRecords(0, 0) returns, for every key whose last     *)
(* callback was "found", a Record of that key with the kind, proximity     *)
(* and registered flag of that last "found".                               *)
C11_GetRecordsReturnsLatest ==
    \A t \in Threads :
        (GetRecordsDone(t) /\ tpc[t].take = 0 /\ tpc[t].skip = 0) =>
            \A k \in VisibleKeys :
                \E i \in DOMAIN tpc[t].result :
                    tpc[t].result[i] = lastEvt[k].rec

(* C12, as claimed: GetRecords(take, skip) on n records returns            *)
(* min(t, max(0, n - skip)) records, t being n for take = 0 and take       *)
(* otherwise, each of a distinct key of the directory.                     *)
C12_GetRecordsCount ==
    \A t \in Threads :
        GetRecordsDone(t) =>
            LET n == MapLen(records)
                tk == IF tpc[t].take = 0 THEN n ELSE tpc[t].take
                res == tpc[t].result
            IN  /\ Len(res) = Min(tk, Max(0, n - tpc[t].skip))
                /\ \A i \in DOMAIN res : res[i] \in records
                /\ \A i, j \in DOMAIN res : i # j => res[i].key # res[j].key

(* C13: a handler that holds the write lock is alone in the directory (no  *)
(* other handler, no reader), the lock is held by the goroutines that are  *)
(* inside and by no other, and a Quantity call that reads the map while    *)
(* callbacks of other goroutines wait or have completed gets the number of *)
(* Records the map holds, one for each key whose last callback was         *)
(* "found".                                                                *)
C13_WritersAloneAndNetCount ==
    /\ \A t \in Threads :
           tpc[t].pc \in {"locked", "written"} =>
               /\ mu.w = t /\ mu.r = {}
               /\ \A u \in Threads \ {t} : tpc[u].pc = "idle"
    /\ \A t \in Threads :
           tpc[t].pc \in {"rlocked", "read"} => (t \in mu.r /\ mu.w = 0)
    /\ \A t \in Threads :
           (tpc[t].ev = "quantity" /\ tpc[t].pc = "read") =>
               /\ tpc[t].val = MapLen(records)
               /\ \A k \in Keys : HasKey(records, k) <=> k \in VisibleKeys

(* C13, its case: Quantity returns 1 after k1 was found and k2 was found   *)
(* and then lost, while another goroutine reads too.                       *)
C13_Witness ==
    \E t, u \in Threads :
        /\ t # u
        /\ tpc[t].ev = "quantity" /\ tpc[t].pc = "read" /\ tpc[t].val = 1
        /\ tpc[u].pc \in {"rlocked", "read"}
        /\ lastEvt["k1"].ev = PERIPHERAL_FOUND
        /\ lastEvt["k2"].ev = PERIPHERAL_LOST /\ lastEvt["k2"].had

(* C14: a GetRecords call that runs when the last callback of key K was    *)
(* "lost" finds no Record of K, neither among the records it returns nor   *)
(* among the ones it ranged over in the map.                               *)
C14_LostKeyNotReturned ==
    \A t \in Threads :
        GetRecordsDone(t) =>
            \A k \in Keys :
                lastEvt[k].ev = PERIPHERAL_LOST =>
                    /\ \A i \in DOMAIN tpc[t].result : tpc[t].result[i].key # k
                    /\ \A i \in DOMAIN tpc[t].list : tpc[t].list[i].key # k

(* C14, its case: GetRecords runs after k1 was found and then lost, while  *)
(* the directory holds a Record of k2.                                     *)
C14_Witness ==
    \E t \in Threads :
        /\ GetRecordsDone(t)
        /\ lastEvt["k1"].ev = PERIPHERAL_LOST /\ lastEvt["k1"].had
        /\ Len(tpc[t].list) = 1

(* C17: a callback for key K leaves the Records of all other keys as they  *)
(* are, and a "lost" callback for a key without Record leaves the whole    *)
(* directory, and its size, as it is.                                      *)
C17_CallbackTouchesOnlyItsKey ==
    [][\A t \in Threads :
          (tpc[t].pc = "locked" /\ tpc'[t].pc = "written") =>
              LET K == tpc[t].peripheral.key IN
              /\ { e \in records' : e.key # K } = { e \in records : e.key # K }
              /\ (tpc[t].ev = PERIPHERAL_LOST /\ ~HasKey(records, K)) =>
                     (records' = records /\ MapLen(records') = MapLen(records))
      ]_vars

(* C17, its case: a "lost" callback for k1, which had no Record, has run   *)
(* while the directory holds a Record of k2.                               *)
C17_Witness ==
    \E t \in Threads :
        /\ tpc[t].pc = "written" /\ tpc[t].ev = PERIPHERAL_LOST
        /\ tpc[t].peripheral.key = "k1"
        /\ ~lastEvt["k1"].had
        /\ HasKey(records, "k2")

=============================================================================
